---- MODULE Spec2Model ----
(***************************************************************************)
(* A model of the versioned-api model layer: the "models" registry         *)
(* (collection routing, limits guard, save/create hooks, x-meta            *)
(* validation, properties order) and the "users" access check.             *)
(***************************************************************************)
EXTENDS Integers, Sequences, FiniteSets, TLC

VARIABLES
    spaces,        \* the Spaces tenant directory: a set of space records, one per id
    collModel,     \* the argument of the last getColl call
    collResult,    \* what the last getColl call returned
    collCalled,    \* whether getColl has been called
    collSpaces,    \* the spaces the last getColl call's lookup found (none, or one)
    dataLimit,     \* config.DATA_LIMIT
    dataCount,     \* number of documents in the tenant collection
    dataPc,        \* per create operation in flight: its position in the pipeline
    dataDoc,       \* per create operation in flight: its document
    dataLog,       \* outcomes of the finished creates, in order of completion
    dataBegun,     \* number of creates begun
    dataPeak,      \* largest number of creates that were in flight together
    users,         \* the stored user documents
    accessCall,    \* the last checkAccess call: its document, options and result
    modelsLimit,   \* config.MODELS_LIMIT
    propertyLimit, \* config.PROPERTY_LIMIT
    modelsDocs,    \* the stored documents of the models collection
    colls,         \* mongo.getColls(): the names of the physical collections
    mPc,           \* the models operation in flight: its step, 0 when none is
    mOp,           \* the models operation in flight: its action, account and target
    mDoc,          \* the models operation in flight: its document
    mRan,          \* the hooks the operation has run, in order
    mResult,       \* how the operation ended
    mBefore,       \* the stored documents when the operation began
    mCount,        \* the count validateModelsLimit read
    orderDoc,      \* the document setPropertiesOrder is applied to
    orderResult,   \* what setPropertiesOrder made of it
    xmDoc,         \* the document validateXMeta is applied to
    xmResult       \* what validateXMeta did with it

collVars == <<collModel, collResult, collCalled, collSpaces>>
dataVars == <<dataLimit, dataCount, dataPc, dataDoc, dataLog, dataBegun, dataPeak>>
userVars == <<users, accessCall>>
modelsVars == <<modelsLimit, propertyLimit, modelsDocs, colls, mPc, mOp, mDoc,
                mRan, mResult, mBefore, mCount>>
orderVars == <<orderDoc, orderResult>>
xmVars == <<xmDoc, xmResult>>
vars == <<spaces, collVars, dataVars, userVars, modelsVars, orderVars, xmVars>>

----------------------------------------------------------------------------
(* JavaScript values.  undefined is a value distinct from every string the *)
(* model uses; a string-or-undefined value is truthy when it is neither    *)
(* undefined nor the empty string.                                         *)
Undefined == "<undefined>"

Truthy(v) == v # Undefined /\ v # ""

----------------------------------------------------------------------------
(* lib/util helpers used by the models registry.                           *)

RECURSIVE compact(_)
compact(segments) ==
    IF segments = <<>> THEN <<>>
    ELSE IF Truthy(Head(segments)) THEN <<Head(segments)>> \o compact(Tail(segments))
    ELSE compact(Tail(segments))

RECURSIVE join(_, _)
join(segments, sep) ==
    IF segments = <<>> THEN ""
    ELSE IF Len(segments) = 1 THEN Head(segments)
    ELSE Head(segments) \o sep \o join(Tail(segments), sep)

----------------------------------------------------------------------------
(* The Spaces collaborator.                                                *)

SpaceIds == {"s1", "s2"}
AccountIds == {"a1", "a2"}
DatabaseUrls == {Undefined, "mongodb://own"}
DbKeys == {Undefined, "", "acme"}

SpaceRec == [id : SpaceIds, accountId : AccountIds,
             databaseUrl : DatabaseUrls, dbKey : DbKeys]

\* spaces.get(id): the spaces with that id (none, or one)
spacesGet(id) == {s \in spaces : s.id = id}

\* spaces.get({id, accountId}): the spaces matching the query
spacesGetQuery(id, accountId) == {s \in spaces : s.id = id /\ s.accountId = accountId}

SpacesCreate(s) ==
    /\ spacesGet(s.id) = {}
    /\ spaces' = spaces \cup {s}

SpacesDelete(id) ==
    /\ spacesGet(id) # {}
    /\ spaces' = spaces \ spacesGet(id)

----------------------------------------------------------------------------
(* Errors (lib/errors) and what a hook does: it returns a document or      *)
(* throws.                                                                 *)

NoPath == <<>>

validationError(path) == [type |-> "ValidationError", path |-> path]
accessError == [type |-> "AccessError", path |-> NoPath]
typeError == [type |-> "TypeError", path |-> NoPath]

Return(doc) == [status |-> "return", doc |-> doc]
Throw(error) == [status |-> "throw", error |-> error]

----------------------------------------------------------------------------
(* Limits guard of the tenant data collections, and the create pipeline of *)
(* the API that getApi returns.                                            *)

NumProcs == 3
MaxDataLimit == 2
MaxCreates == 4

Procs == 1 .. NumProcs

validateDataLimitOffByOne(doc, count) ==
    IF count > dataLimit THEN Throw(validationError(NoPath)) ELSE Return(doc)

validateDataLimit(doc, count) ==
    IF count >= dataLimit THEN Throw(validationError(NoPath)) ELSE Return(doc)

\* getApi: the model instance's create.beforeValidation hooks
getApiCreateBeforeValidation == <<"validateDataLimit">>

DataDocs == [title : {"t1"}, valid : BOOLEAN]
NoDoc == [title |-> "", valid |-> FALSE]

InFlight == {p \in Procs : dataPc[p] # "idle"}

DataFinish(p, outcome) ==
    /\ dataPc' = [dataPc EXCEPT ![p] = "idle"]
    /\ dataDoc' = [dataDoc EXCEPT ![p] = NoDoc]
    /\ dataLog' = Append(dataLog, outcome)

DataCreateBegin(p, doc) ==
    /\ dataPc[p] = "idle"
    /\ dataBegun < MaxCreates
    /\ dataBegun' = dataBegun + 1
    /\ dataPc' = [dataPc EXCEPT ![p] = "beforeValidation"]
    /\ dataDoc' = [dataDoc EXCEPT ![p] = doc]
    /\ dataPeak' = IF Cardinality(InFlight) + 1 > dataPeak
                   THEN Cardinality(InFlight) + 1 ELSE dataPeak
    /\ UNCHANGED <<dataLimit, dataCount, dataLog>>
    /\ UNCHANGED <<spaces, collVars, userVars, modelsVars, orderVars, xmVars>>

\* create.beforeValidation: validateDataLimit reads api.count() and compares
DataBeforeValidation(p) ==
    /\ dataPc[p] = "beforeValidation"
    /\ LET r == validateDataLimit(dataDoc[p], dataCount)
       IN  IF r.status = "throw"
           THEN DataFinish(p, "limit")
           ELSE /\ dataPc' = [dataPc EXCEPT ![p] = "validate"]
                /\ dataDoc' = [dataDoc EXCEPT ![p] = r.doc]
                /\ UNCHANGED dataLog
    /\ UNCHANGED <<dataLimit, dataCount, dataBegun, dataPeak>>
    /\ UNCHANGED <<spaces, collVars, userVars, modelsVars, orderVars, xmVars>>

\* schema validation of the document
DataValidate(p) ==
    /\ dataPc[p] = "validate"
    /\ IF dataDoc[p].valid
       THEN /\ dataPc' = [dataPc EXCEPT ![p] = "persist"]
            /\ UNCHANGED <<dataDoc, dataLog>>
       ELSE DataFinish(p, "invalid")
    /\ UNCHANGED <<dataLimit, dataCount, dataBegun, dataPeak>>
    /\ UNCHANGED <<spaces, collVars, userVars, modelsVars, orderVars, xmVars>>

\* the insert into the tenant collection
DataPersist(p) ==
    /\ dataPc[p] = "persist"
    /\ dataCount' = dataCount + 1
    /\ DataFinish(p, "ok")
    /\ UNCHANGED <<dataLimit, dataBegun, dataPeak>>
    /\ UNCHANGED <<spaces, collVars, userVars, modelsVars, orderVars, xmVars>>

\* a delete of one document of the tenant collection
DataDelete ==
    /\ dataCount > 0
    /\ dataCount' = dataCount - 1
    /\ UNCHANGED <<dataLimit, dataPc, dataDoc, dataLog, dataBegun, dataPeak>>
    /\ UNCHANGED <<spaces, collVars, userVars, modelsVars, orderVars, xmVars>>

\* creates executed one after another: none begins while another is in flight
DataCreateBeginSeq(p, doc) ==
    /\ InFlight = {}
    /\ DataCreateBegin(p, doc)

----------------------------------------------------------------------------
(* Collection routing.                                                     *)

prefix == "m"

getCollKeepQualifier(model) ==
    LET found == IF Truthy(model.spaceId) THEN spacesGet(model.spaceId) ELSE {}
    IN  IF found # {} /\ Truthy(model.coll)
        THEN LET space == CHOOSE s \in found : TRUE
             IN  join(compact(<<prefix, space.dbKey, model.coll>>), "_")
        ELSE Undefined

getColl(model) ==
    LET found == IF Truthy(model.spaceId) THEN spacesGet(model.spaceId) ELSE {}
    IN  IF found # {} /\ Truthy(model.coll)
        THEN LET space == CHOOSE s \in found : TRUE
                 qualifier == IF Truthy(space.databaseUrl) THEN Undefined ELSE space.dbKey
             IN  join(compact(<<prefix, qualifier, model.coll>>), "_")
        ELSE Undefined

CollSpaceIds == {Undefined, "", "s1", "s2"}
CollNames == {Undefined, "", "todos", "notes"}
CollModels == [spaceId : CollSpaceIds, coll : CollNames]

GetColl(model) ==
    /\ collModel' = model
    /\ collResult' = getColl(model)
    /\ collCalled' = TRUE
    /\ collSpaces' = IF Truthy(model.spaceId) THEN spacesGet(model.spaceId) ELSE {}
    /\ UNCHANGED <<spaces, dataVars, userVars, modelsVars, orderVars, xmVars>>

CollSpacesCreate(s) == SpacesCreate(s) /\ UNCHANGED <<collVars, dataVars, userVars, modelsVars, orderVars, xmVars>>
CollSpacesDelete(id) == SpacesDelete(id) /\ UNCHANGED <<collVars, dataVars, userVars, modelsVars, orderVars, xmVars>>

----------------------------------------------------------------------------
(* The users model: its access check, and the operations it guards.        *)

UserIds == {"u1", "u2"}
UserNames == {"ann", "bob"}
Actions == {"list", "get", "create", "update", "delete"}

\* a user document, as the hooks see it
UserDocs == [id : UserIds \cup {Undefined}, name : UserNames]

\* the hook's options: options.action, getIn(options, 'user.id') and whether
\* getIn(options, 'user.superUser') is truthy
AccessOptions == [action : Actions, userId : UserIds \cup {Undefined}, superUser : BOOLEAN]

checkAccessUpdateOnly(doc, options) ==
    IF options.superUser THEN Return(doc)
    ELSE IF options.action \in {"update"} /\ doc.id # options.userId
         THEN Throw(accessError)
         ELSE Return(doc)

checkAccess(doc, options) ==
    IF options.superUser THEN Return(doc)
    ELSE IF options.action \in {"update", "delete"} /\ doc.id # options.userId
         THEN Throw(accessError)
         ELSE Return(doc)

\* model.callbacks of the users model
usersCallbacks ==
    [update |-> [beforeValidation |-> <<"checkAccess">>],
     delete |-> [before |-> <<"checkAccess">>]]

UsersCreate(doc) ==
    /\ doc.id # Undefined
    /\ \A u \in users : u.id # doc.id
    /\ users' = users \cup {doc}
    /\ UNCHANGED accessCall
    /\ UNCHANGED <<spaces, collVars, dataVars, modelsVars, orderVars, xmVars>>

\* update: beforeValidation runs checkAccess on the changed document, then the
\* document is stored
UsersUpdate(options, id, name) ==
    /\ options.action = "update"
    /\ \E u \in users :
          /\ u.id = id
          /\ LET doc == [u EXCEPT !.name = name]
                 r == checkAccess(doc, options)
             IN  /\ accessCall' = [doc |-> doc, options |-> options, result |-> r]
                 /\ users' = IF r.status = "return"
                             THEN (users \ {u}) \cup {r.doc}
                             ELSE users
    /\ UNCHANGED <<spaces, collVars, dataVars, modelsVars, orderVars, xmVars>>

\* delete: before runs checkAccess on the stored document, then it is removed
UsersDelete(options, id) ==
    /\ options.action = "delete"
    /\ \E u \in users :
          /\ u.id = id
          /\ LET r == checkAccess(u, options)
             IN  /\ accessCall' = [doc |-> u, options |-> options, result |-> r]
                 /\ users' = IF r.status = "return" THEN users \ {u} ELSE users
    /\ UNCHANGED <<spaces, collVars, dataVars, modelsVars, orderVars, xmVars>>

\* the hook invoked with any document and any options
CheckAccess(doc, options) ==
    /\ accessCall' = [doc |-> doc, options |-> options, result |-> checkAccess(doc, options)]
    /\ UNCHANGED users
    /\ UNCHANGED <<spaces, collVars, dataVars, modelsVars, orderVars, xmVars>>

----------------------------------------------------------------------------
(* Documents of the models collection.  An optional field is a sequence of *)
(* length 0 (absent) or 1 (present).  An object with ordered keys, such as *)
(* schema.properties, is the sequence of its entries in declaration order. *)

None == <<>>
Some(x) == <<x>>
IsSome(o) == Len(o) = 1
The(o) == o[1]

\* a JSON value with its type: boolean, integer, string, array or object
JBool(b) == [t |-> "boolean", v |-> b]
JInt(n) == [t |-> "integer", v |-> n]
JStr(s) == [t |-> "string", v |-> s]
JArr(a) == [t |-> "array", v |-> a]
JObj(o) == [t |-> "object", v |-> o]

\* one entry of model.schema.properties
Property(key, type, xMeta) == [key |-> key, type |-> type, xMeta |-> xMeta]

\* doc.model
ModelOf(properties) ==
    [coll |-> Undefined, type |-> Undefined, features |-> None,
     xMeta |-> None, properties |-> properties]

EmptyDoc ==
    [name |-> Undefined, spaceId |-> Undefined, coll |-> Undefined,
     accountId |-> Undefined, features |-> None, propertiesOrder |-> None,
     model |-> None]

ReturnUndefined == [status |-> "undefined"]

\* getIn(doc, 'model.schema.properties')
getInProperties(doc) ==
    IF IsSome(doc.model) THEN The(doc.model).properties ELSE None

\* lib/util: empty and notEmpty of an optional list or object
empty(o) == ~IsSome(o) \/ The(o) = <<>>
notEmpty(o) == ~empty(o)

keys(properties) == [i \in 1 .. Len(properties) |-> properties[i].key]

includes(list, x) == \E i \in 1 .. Len(list) : list[i] = x

\* lib/util filter: the callback is a function over the list's elements
filter(list, test) ==
    LET kept[i \in 0 .. Len(list)] ==
            IF i = 0 THEN <<>>
            ELSE IF test[list[i]] THEN Append(kept[i - 1], list[i])
            ELSE kept[i - 1]
    IN  kept[Len(list)]

difference(a, b) ==
    filter(a, [x \in {a[i] : i \in 1 .. Len(a)} |-> ~includes(b, x)])

concat(a, b) == a \o b

----------------------------------------------------------------------------
(* The order of a model's properties.                                      *)

setPropertiesOrder(doc) ==
    LET properties == getInProperties(doc)
    IN  IF empty(properties) THEN ReturnUndefined
        ELSE LET declared == IF IsSome(doc.propertiesOrder)
                             THEN The(doc.propertiesOrder) ELSE <<>>
                 valid == filter(declared,
                     [key \in {declared[i] : i \in 1 .. Len(declared)} |->
                         includes(keys(The(properties)), key)])
                 missing == difference(keys(The(properties)), valid)
                 propertiesOrder == concat(valid, missing)
             IN  IF propertiesOrder # <<>>
                 THEN Return([doc EXCEPT !.propertiesOrder = Some(propertiesOrder)])
                 ELSE ReturnUndefined

MaxOrderLen == 3
MaxProperties == 3

OrderKeys == {"a", "b", "c"}
DeclaredKeys == OrderKeys \cup {"z"}

\* the lists over S of length at most n
ListsUpTo(S, n) == UNION {[1 .. k -> S] : k \in 0 .. n}

\* the lists over S of length at most n that repeat no element
DistinctLists(S, n) ==
    {l \in ListsUpTo(S, n) : \A i, j \in 1 .. Len(l) : i # j => l[i] # l[j]}

OrderDocOf(declared, schemaKeys) ==
    [EmptyDoc EXCEPT
        !.propertiesOrder = declared,
        !.model = Some(ModelOf(Some([i \in 1 .. Len(schemaKeys) |->
                                        Property(schemaKeys[i], None, None)])))]

SetPropertiesOrder ==
    /\ orderResult = <<>>
    /\ orderResult' = setPropertiesOrder(orderDoc)
    /\ UNCHANGED orderDoc
    /\ UNCHANGED <<spaces, collVars, dataVars, userVars, modelsVars, xmVars>>

----------------------------------------------------------------------------
(* Property names.  TLC cannot take a string apart, so Chars gives the     *)
(* characters of each string the model matches against the pattern.        *)

PROPERTY_NAME_PATTERN == "^[a-zA-Z0-9_-]{1,30}$"

MaxNameLength == 30

LongName == "aaaaaaaaaaaaaaaaaaaaaaaaaaaaaaa"

Chars(s) ==
    CASE s = "" -> <<>>
      [] s = "a" -> <<"a">>
      [] s = "b" -> <<"b">>
      [] s = "c" -> <<"c">>
      [] s = "z" -> <<"z">>
      [] s = "x_1-Y" -> <<"x", "_", "1", "-", "Y">>
      [] s = "models" -> <<"m", "o", "d", "e", "l", "s">>
      [] s = "bad name" -> <<"b", "a", "d", " ", "n", "a", "m", "e">>
      [] s = "a.b" -> <<"a", ".", "b">>
      [] s = LongName -> [i \in 1 .. MaxNameLength + 1 |-> "a"]

NameChars ==
    {"a", "b", "c", "d", "e", "f", "g", "h", "i", "j", "k", "l", "m",
     "n", "o", "p", "q", "r", "s", "t", "u", "v", "w", "x", "y", "z",
     "A", "B", "C", "D", "E", "F", "G", "H", "I", "J", "K", "L", "M",
     "N", "O", "P", "Q", "R", "S", "T", "U", "V", "W", "X", "Y", "Z",
     "0", "1", "2", "3", "4", "5", "6", "7", "8", "9", "_", "-"}

\* name.match(new RegExp(PROPERTY_NAME_PATTERN))
matchPropertyName(name) ==
    LET chars == Chars(name)
    IN  /\ Len(chars) >= 1
        /\ Len(chars) <= MaxNameLength
        /\ \A i \in 1 .. Len(chars) : chars[i] \in NameChars

----------------------------------------------------------------------------
(* Structural JSON-Schema validation (lib/json_schema) of the keywords the *)
(* x-meta schema uses.  A schema states every keyword; an empty type or    *)
(* enum set, or an empty pattern, means the keyword is absent.             *)

Schema(types) ==
    [type |-> types, enum |-> {}, pattern |-> "", properties |-> <<>>,
     required |-> {}, additionalProperties |-> TRUE]

typeMatches(types, value) ==
    \/ types = {}
    \/ value.t \in types
    \/ value.t = "integer" /\ "number" \in types

RECURSIVE jsonSchemaValid(_, _)
jsonSchemaValid(schema, value) ==
    /\ typeMatches(schema.type, value)
    /\ schema.enum # {} => (value.t = "string" /\ value.v \in schema.enum)
    /\ (schema.pattern = PROPERTY_NAME_PATTERN /\ value.t = "string") =>
          matchPropertyName(value.v)
    /\ value.t = "object" =>
          /\ schema.required \subseteq DOMAIN value.v
          /\ \A k \in DOMAIN value.v :
                IF k \in DOMAIN schema.properties
                THEN jsonSchemaValid(schema.properties[k], value.v[k])
                ELSE schema.additionalProperties

\* jsonSchema.validate(schema, value, {path}): the errors, if any
jsonSchemaValidate(schema, value, path) ==
    IF jsonSchemaValid(schema, value) THEN None ELSE Some(validationError(path))

\* truthiness of a JSON value
JTruthy(value) ==
    CASE value.t = "boolean" -> value.v
      [] value.t = "integer" -> value.v # 0
      [] value.t = "string" -> value.v # ""
      [] OTHER -> TRUE

----------------------------------------------------------------------------
(* The x-meta blocks of a model's properties.                              *)

\* getIn(modelSchema, ['properties', 'coll'])
collSchema == Schema({"string"})

RelationshipTypes == {"one-to-one", "one-to-many", "many-to-one", "many-to-many"}

X_META_SCHEMA ==
    [Schema({"object"}) EXCEPT
        !.properties =
            [id |-> Schema({"boolean"}),
             readable |-> Schema({"boolean"}),
             writable |-> Schema({"boolean"}),
             update |-> Schema({"boolean"}),
             versioned |-> Schema({"boolean"}),
             index |-> Schema({"boolean", "integer"}),
             unique |-> Schema({"boolean"}),
             mergeChangelog |-> Schema({"boolean"}),
             field |->
                [Schema({"object"}) EXCEPT
                    !.properties = [name |-> Schema({"string"}),
                                    type |-> Schema({"string"})],
                    !.additionalProperties = FALSE],
             relationship |->
                [Schema({"object"}) EXCEPT
                    !.properties =
                        [toType |-> collSchema,
                         type |-> [Schema({}) EXCEPT !.enum = RelationshipTypes],
                         toField |-> [Schema({"string"}) EXCEPT
                                         !.pattern = PROPERTY_NAME_PATTERN],
                         name |-> Schema({"string"}),
                         oneWay |-> Schema({"boolean"})],
                    !.required = {"toType", "type"},
                    !.additionalProperties = FALSE]],
        !.additionalProperties = FALSE]

uniqueAllowedAnyScalar(property) ==
    /\ IsSome(property.type)
    /\ The(property.type).t = "string"
    /\ The(property.type).v \in {"string", "integer", "number", "boolean"}

uniqueAllowed(property) ==
    /\ IsSome(property.type)
    /\ The(property.type).t = "string"
    /\ The(property.type).v \in {"string", "integer", "number"}

xMetaPath(key) == "model.schema.properties." \o key \o ".x-meta"

\* xMeta.unique, once the block has passed the schema
xMetaUnique(xMeta) ==
    /\ xMeta.t = "object"
    /\ "unique" \in DOMAIN xMeta.v
    /\ JTruthy(xMeta.v.unique)

\* the body of validateXMeta's loop: what it throws for one property, if anything
validateXMetaProperty(property) ==
    IF IsSome(property.xMeta) /\ JTruthy(The(property.xMeta))
    THEN LET xMeta == The(property.xMeta)
             path == xMetaPath(property.key)
             errors == jsonSchemaValidate(X_META_SCHEMA, xMeta, path)
         IN  IF IsSome(errors) THEN errors
             ELSE IF xMetaUnique(xMeta) /\ ~uniqueAllowed(property)
                  THEN Some(validationError(path))
                  ELSE None
    ELSE None

validateXMeta(doc) ==
    LET properties == getInProperties(doc)
    IN  IF empty(properties) THEN ReturnUndefined
        ELSE LET list == The(properties)
                 thrown == {i \in 1 .. Len(list) : IsSome(validateXMetaProperty(list[i]))}
             IN  IF thrown = {} THEN ReturnUndefined
                 ELSE LET first == CHOOSE i \in thrown : \A j \in thrown : i <= j
                      IN  Throw(The(validateXMetaProperty(list[first])))

\* the declared types of a property: absent, a type name, or a list of names
XmTypes ==
    <<None, Some(JStr("string")), Some(JStr("integer")), Some(JStr("number")),
      Some(JStr("boolean")), Some(JStr("object")), Some(JStr("array")),
      Some(JArr(<<"string">>))>>

Relationship == [toType |-> JStr("spaces"), type |-> JStr("many-to-one")]

\* the x-meta blocks of a property: absent, or a JSON value
XmBlocks ==
    <<None,
      Some(JBool(FALSE)),
      Some(JStr("unique")),
      Some(JObj(<<>>)),
      Some(JObj([unique |-> JBool(TRUE)])),
      Some(JObj([unique |-> JBool(FALSE)])),
      Some(JObj([unique |-> JBool(TRUE), index |-> JInt(1)])),
      Some(JObj([unique |-> JBool(TRUE), index |-> JStr("yes")])),
      Some(JObj([unique |-> JBool(TRUE), write |-> JBool(FALSE)])),
      Some(JObj([write |-> JBool(FALSE), index |-> JBool(TRUE)])),
      Some(JObj([id |-> JBool(TRUE), readable |-> JBool(TRUE), writable |-> JBool(FALSE),
                 update |-> JBool(FALSE), versioned |-> JBool(TRUE),
                 mergeChangelog |-> JBool(TRUE)])),
      Some(JObj([field |-> JObj([name |-> JStr("a"), type |-> JStr("b")])])),
      Some(JObj([field |-> JObj([name |-> JStr("a"), label |-> JStr("b")])])),
      Some(JObj([relationship |-> JObj(Relationship)])),
      Some(JObj([relationship |->
                    JObj([toType |-> JStr("spaces"), type |-> JStr("many-to-one"),
                          toField |-> JStr("models"), name |-> JStr("a"),
                          oneWay |-> JBool(FALSE)])])),
      Some(JObj([relationship |->
                    JObj([toType |-> JStr("spaces"), type |-> JStr("many-to-one"),
                          toField |-> JStr("bad name")])])),
      Some(JObj([relationship |-> JObj([type |-> JStr("many-to-one")])])),
      Some(JObj([relationship |->
                    JObj([toType |-> JStr("spaces"), type |-> JStr("some-to-one")])])),
      Some(JObj([relationship |->
                    JObj([toType |-> JStr("spaces"), type |-> JStr("many-to-one"),
                          onDelete |-> JStr("cascade")])])),
      Some(JObj([unique |-> JBool(TRUE),
                 relationship |->
                    JObj([toType |-> JStr("spaces"), type |-> JStr("many-to-one"),
                          onDelete |-> JStr("cascade")])]))>>

XmDocOf(properties) == [EmptyDoc EXCEPT !.model = Some(ModelOf(Some(properties)))]

ValidateXMeta ==
    /\ xmResult = <<>>
    /\ xmResult' = validateXMeta(xmDoc)
    /\ UNCHANGED xmDoc
    /\ UNCHANGED <<spaces, collVars, dataVars, userVars, modelsVars, orderVars>>

----------------------------------------------------------------------------
(* The hooks of the models registry.  A hook is given the document and the *)
(* operation's options and reads the tenant directory and the store.       *)

\* lib/util dbFriendly, on the names the model uses
dbFriendly(name) ==
    CASE name = "Todos" -> "todos"
      [] name = "Notes" -> "notes"
      [] OTHER -> name

\* modelSpec.DEFAULTS.features
DEFAULTS_features == <<"defaults">>

\* doc.model, made an object if it is not one yet (setIn and deepMerge do that)
modelOrEmpty(doc) == IF IsSome(doc.model) THEN The(doc.model) ELSE ModelOf(None)

validateSpace(doc, options) ==
    LET accountId == options.account
    IN  IF Truthy(doc.spaceId) /\ spacesGetQuery(doc.spaceId, accountId) = {}
        THEN Throw(validationError("spaceId"))
        ELSE Return(doc)

setDefaultColl(doc) ==
    IF Truthy(doc.name) /\ ~Truthy(doc.coll)
    THEN Return([doc EXCEPT !.coll = dbFriendly(doc.name)])
    ELSE ReturnUndefined

setModelColl(doc) ==
    LET coll == getColl(doc)
    IN  IF Truthy(coll)
        THEN Return([doc EXCEPT
                        !.model = Some([modelOrEmpty(doc) EXCEPT
                                           !.coll = coll, !.type = doc.coll])])
        ELSE Return(doc)

\* space.accountId of a space that was not found is a TypeError
setAccountId(doc) ==
    IF ~Truthy(doc.spaceId) THEN Return(doc)
    ELSE LET found == spacesGet(doc.spaceId)
         IN  IF found = {} THEN Throw(typeError)
             ELSE Return([doc EXCEPT !.accountId = (CHOOSE s \in found : TRUE).accountId])

setFeatures(doc) ==
    IF IsSome(doc.features)
    THEN Return([doc EXCEPT
                    !.model = Some([modelOrEmpty(doc) EXCEPT
                                       !.features = Some(concat(DEFAULTS_features,
                                                                The(doc.features)))])])
    ELSE Return(doc)

setSchema(doc) ==
    IF IsSome(doc.model)
    THEN Return([doc EXCEPT
                    !.model = Some([The(doc.model) EXCEPT
                                       !.xMeta = Some([writeRequiresAdmin |-> FALSE,
                                                       dataModel |-> TRUE])])])
    ELSE Return(doc)

validatePropertyNames(doc) ==
    LET properties == getInProperties(doc)
        propertyNames == IF IsSome(properties) THEN keys(The(properties)) ELSE <<>>
        invalidNames == filter(propertyNames,
            [name \in {propertyNames[i] : i \in 1 .. Len(propertyNames)} |->
                ~matchPropertyName(name)])
    IN  IF invalidNames # <<>> THEN Throw(validationError(NoPath)) ELSE Return(doc)

validateModel(doc) == Return(doc)

validatePropertiesLimit(doc) ==
    LET properties == getInProperties(doc)
    IN  IF IsSome(properties) /\ Len(The(properties)) > propertyLimit
        THEN Throw(validationError(NoPath))
        ELSE Return(doc)

validateCollAvailable(doc) ==
    LET coll == IF IsSome(doc.model) THEN The(doc.model).coll ELSE Undefined
    IN  IF Truthy(coll) /\ coll \in colls
        THEN Throw(validationError("coll"))
        ELSE Return(doc)

\* modelApi({coll}, mongo).count({spaceId})
modelsCountOf(spaceId) == Cardinality({d \in modelsDocs : d.spaceId = spaceId})

\* modelsCount && ...: a count of 0 is falsy
validateModelsLimit(doc) ==
    IF Truthy(doc.spaceId) /\ modelsCountOf(doc.spaceId) # 0
          /\ modelsCountOf(doc.spaceId) >= modelsLimit
    THEN Throw(validationError(NoPath))
    ELSE Return(doc)

\* the generated API descriptions are valid or not: the Swagger collaborator's doing
validateSwagger(doc, swaggerValid) ==
    IF IsSome(doc.model) /\ Truthy(doc.spaceId) /\ ~swaggerValid
    THEN Throw(validationError(NoPath))
    ELSE Return(doc)

\* model.schema of the models registry: the required fields
modelsSchemaValid(doc) ==
    /\ doc.name # Undefined
    /\ doc.spaceId # Undefined
    /\ doc.accountId # Undefined
    /\ doc.coll # Undefined
    /\ IsSome(doc.model)

\* model.indexes: the unique indexes of the models collection
modelsIndexConflict(doc, stored) ==
    \E d \in stored :
        \/ IsSome(doc.model) /\ IsSome(d.model) /\ The(d.model).coll = The(doc.model).coll
        \/ d.spaceId = doc.spaceId /\ d.coll = doc.coll
        \/ d.spaceId = doc.spaceId /\ d.name = doc.name

modelsCallbacksXMetaFirst ==
    [save |->
        [beforeValidation |->
            <<"validateXMeta", "validateSpace", "setDefaultColl", "setModelColl",
              "setAccountId", "setFeatures", "setSchema", "validatePropertyNames",
              "validateModel", "validatePropertiesLimit", "setPropertiesOrder">>,
         afterValidation |-> <<"validateSwagger">>],
     create |-> [beforeValidation |-> <<"validateCollAvailable", "validateModelsLimit">>],
     delete |-> [after |-> <<"deleteColl">>]]

\* model.callbacks of the models registry
modelsCallbacks ==
    [save |->
        [beforeValidation |->
            <<"validateSpace", "setDefaultColl", "setModelColl", "setAccountId",
              "setFeatures", "setSchema", "validatePropertyNames", "validateModel",
              "validatePropertiesLimit", "setPropertiesOrder">>,
         afterValidation |-> <<"validateXMeta", "validateSwagger">>],
     create |-> [beforeValidation |-> <<"validateCollAvailable", "validateModelsLimit">>],
     delete |-> [after |-> <<"deleteColl">>]]

----------------------------------------------------------------------------
(* The callback pipeline (lib/model_api): the hooks of each stage in       *)
(* declared order, the save hooks before the create or update hooks, the   *)
(* first failure ending the operation.                                     *)

hooksOf(callbacks, action, stage) ==
    IF action \in DOMAIN callbacks /\ stage \in DOMAIN callbacks[action]
    THEN callbacks[action][stage]
    ELSE <<>>

stageSteps(callbacks, action, stage) ==
    LET hooks == IF action \in {"create", "update"}
                 THEN hooksOf(callbacks, "save", stage) \o hooksOf(callbacks, action, stage)
                 ELSE hooksOf(callbacks, action, stage)
    IN  [i \in 1 .. Len(hooks) |-> [stage |-> stage, hook |-> hooks[i]]]

\* the steps of an operation, in order
plan(callbacks, action) ==
    IF action = "delete"
    THEN stageSteps(callbacks, action, "before")
            \o <<[stage |-> "persist", hook |-> "delete"]>>
            \o stageSteps(callbacks, action, "after")
    ELSE stageSteps(callbacks, action, "beforeValidation")
            \o <<[stage |-> "validate", hook |-> "schema"]>>
            \o stageSteps(callbacks, action, "afterValidation")
            \o <<[stage |-> "persist", hook |-> action]>>
            \o stageSteps(callbacks, action, "after")

ModelsPlan == plan(modelsCallbacks, mOp.action)

ModelsStepIs(stage, hook) ==
    /\ mPc \in 1 .. Len(ModelsPlan)
    /\ ModelsPlan[mPc] = [stage |-> stage, hook |-> hook]

\* what the hooks that only read the directory and the store do
runHook(hook, doc, options, swaggerValid) ==
    CASE hook = "validateSpace" -> validateSpace(doc, options)
      [] hook = "setDefaultColl" -> setDefaultColl(doc)
      [] hook = "setModelColl" -> setModelColl(doc)
      [] hook = "setAccountId" -> setAccountId(doc)
      [] hook = "setFeatures" -> setFeatures(doc)
      [] hook = "setSchema" -> setSchema(doc)
      [] hook = "validatePropertyNames" -> validatePropertyNames(doc)
      [] hook = "validateModel" -> validateModel(doc)
      [] hook = "validatePropertiesLimit" -> validatePropertiesLimit(doc)
      [] hook = "setPropertiesOrder" -> setPropertiesOrder(doc)
      [] hook = "validateCollAvailable" -> validateCollAvailable(doc)
      [] hook = "validateModelsLimit" -> validateModelsLimit(doc)
      [] hook = "validateXMeta" -> validateXMeta(doc)
      [] hook = "validateSwagger" -> validateSwagger(doc, swaggerValid)

ModelsOk == Some([status |-> "ok"])
ModelsError(error, step) == Some([status |-> "error", error |-> error, step |-> step])

\* an operation on the models registry begins
ModelsBegin(action, doc, account, target) ==
    /\ mPc = 0
    /\ mOp' = [action |-> action, account |-> account, target |-> target]
    /\ mDoc' = doc
    /\ mPc' = 1
    /\ mRan' = <<>>
    /\ mResult' = None
    /\ mBefore' = modelsDocs
    /\ mCount' = None
    /\ UNCHANGED <<modelsLimit, propertyLimit, modelsDocs, colls>>
    /\ UNCHANGED <<spaces, collVars, dataVars, userVars, orderVars, xmVars>>

ModelsCreate(doc, account) == ModelsBegin("create", doc, account, None)

ModelsUpdate(target, name, account) ==
    /\ target \in modelsDocs
    /\ ModelsBegin("update", [target EXCEPT !.name = name], account, Some(target))

ModelsDelete(target, account) ==
    /\ target \in modelsDocs
    /\ ModelsBegin("delete", target, account, Some(target))

\* the next hook of a stage runs: it returns a document, returns nothing, or throws
ModelsHook(swaggerValid) ==
    /\ mPc \in 1 .. Len(ModelsPlan)
    /\ ModelsPlan[mPc].stage \in {"beforeValidation", "afterValidation", "before"}
    /\ LET step == ModelsPlan[mPc]
           r == runHook(step.hook, mDoc, mOp, swaggerValid)
       IN  /\ mRan' = Append(mRan, step.hook)
           /\ mCount' = IF step.hook = "validateModelsLimit" /\ Truthy(mDoc.spaceId)
                        THEN Some(modelsCountOf(mDoc.spaceId))
                        ELSE mCount
           /\ IF r.status = "throw"
              THEN /\ mResult' = ModelsError(r.error, step)
                   /\ mPc' = 0
                   /\ UNCHANGED mDoc
              ELSE /\ mDoc' = IF r.status = "return" THEN r.doc ELSE mDoc
                   /\ mPc' = mPc + 1
                   /\ UNCHANGED mResult
    /\ UNCHANGED <<modelsLimit, propertyLimit, modelsDocs, colls, mOp, mBefore>>
    /\ UNCHANGED <<spaces, collVars, dataVars, userVars, orderVars, xmVars>>

\* the document is validated against the schema of the models registry
ModelsValidate ==
    /\ ModelsStepIs("validate", "schema")
    /\ mRan' = Append(mRan, "schema")
    /\ IF modelsSchemaValid(mDoc)
       THEN mPc' = mPc + 1 /\ UNCHANGED mResult
       ELSE mPc' = 0 /\ mResult' = ModelsError(validationError(NoPath), ModelsPlan[mPc])
    /\ UNCHANGED <<modelsLimit, propertyLimit, modelsDocs, colls, mOp, mDoc, mBefore, mCount>>
    /\ UNCHANGED <<spaces, collVars, dataVars, userVars, orderVars, xmVars>>

\* what follows the last step
ModelsAdvance(result) ==
    IF mPc = Len(ModelsPlan)
    THEN mPc' = 0 /\ mResult' = result
    ELSE mPc' = mPc + 1 /\ UNCHANGED mResult

\* the write to the models collection, which the unique indexes may refuse
ModelsPersist ==
    /\ mPc \in 1 .. Len(ModelsPlan)
    /\ ModelsPlan[mPc].stage = "persist"
    /\ mRan' = Append(mRan, ModelsPlan[mPc].hook)
    /\ LET others == IF IsSome(mOp.target) THEN modelsDocs \ {The(mOp.target)} ELSE modelsDocs
       IN  IF mOp.action = "delete"
           THEN modelsDocs' = others /\ ModelsAdvance(ModelsOk)
           ELSE IF modelsIndexConflict(mDoc, others)
                THEN /\ mPc' = 0
                     /\ mResult' = ModelsError([type |-> "StoreConflictError",
                                                path |-> NoPath], ModelsPlan[mPc])
                     /\ UNCHANGED modelsDocs
                ELSE modelsDocs' = others \cup {mDoc} /\ ModelsAdvance(ModelsOk)
    /\ UNCHANGED <<modelsLimit, propertyLimit, colls, mOp, mDoc, mBefore, mCount>>
    /\ UNCHANGED <<spaces, collVars, dataVars, userVars, orderVars, xmVars>>

\* delete.after: deleteColl drops the model's physical collection if there is one
ModelsDeleteColl ==
    /\ ModelsStepIs("after", "deleteColl")
    /\ mRan' = Append(mRan, "deleteColl")
    /\ LET coll == IF IsSome(mDoc.model) THEN The(mDoc.model).coll ELSE Undefined
       IN  colls' = IF coll \in colls THEN colls \ {coll} ELSE colls
    /\ ModelsAdvance(ModelsOk)
    /\ UNCHANGED <<modelsLimit, propertyLimit, modelsDocs, mOp, mDoc, mBefore, mCount>>
    /\ UNCHANGED <<spaces, collVars, dataVars, userVars, orderVars, xmVars>>

\* a first document is written to a model's collection, which creates it
ModelsCollCreated(doc) ==
    /\ doc \in modelsDocs
    /\ IsSome(doc.model) /\ Truthy(The(doc.model).coll)
    /\ The(doc.model).coll \notin colls
    /\ colls' = colls \cup {The(doc.model).coll}
    /\ UNCHANGED <<modelsLimit, propertyLimit, modelsDocs, mPc, mOp, mDoc, mRan,
                   mResult, mBefore, mCount>>
    /\ UNCHANGED <<spaces, collVars, dataVars, userVars, orderVars, xmVars>>

\* concurrent operations on the tenant directory
ModelsSpacesCreate(s) ==
    /\ SpacesCreate(s)
    /\ UNCHANGED <<collVars, dataVars, userVars, modelsVars, orderVars, xmVars>>

ModelsSpacesDelete(id) ==
    /\ SpacesDelete(id)
    /\ UNCHANGED <<collVars, dataVars, userVars, modelsVars, orderVars, xmVars>>

----------------------------------------------------------------------------
(* The state of each part of the program before anything has run in it.    *)

CollIdle ==
    /\ collModel = [spaceId |-> Undefined, coll |-> Undefined]
    /\ collResult = Undefined
    /\ collCalled = FALSE
    /\ collSpaces = {}

DataIdle ==
    /\ dataCount = 0
    /\ dataPc = [p \in Procs |-> "idle"]
    /\ dataDoc = [p \in Procs |-> NoDoc]
    /\ dataLog = <<>>
    /\ dataBegun = 0
    /\ dataPeak = 0

UserIdle ==
    /\ users = {}
    /\ accessCall = <<>>

ModelsIdle ==
    /\ modelsDocs = {}
    /\ colls = {}
    /\ mPc = 0
    /\ mOp = [action |-> "create", account |-> Undefined, target |-> None]
    /\ mDoc = EmptyDoc
    /\ mRan = <<>>
    /\ mResult = None
    /\ mBefore = {}
    /\ mCount = None

OrderIdle ==
    /\ orderDoc = <<>>
    /\ orderResult = <<>>

XmIdle ==
    /\ xmDoc = <<>>
    /\ xmResult = <<>>

----------------------------------------------------------------------------
(* Collection routing over a changing tenant directory.                    *)

InitColl ==
    /\ spaces = {}
    /\ CollIdle
    /\ dataLimit = 1 /\ DataIdle
    /\ UserIdle
    /\ modelsLimit = 1 /\ propertyLimit = 1 /\ ModelsIdle
    /\ OrderIdle
    /\ XmIdle

NextColl ==
    \/ \E s \in SpaceRec : CollSpacesCreate(s)
    \/ \E id \in SpaceIds : CollSpacesDelete(id)
    \/ \E model \in CollModels : GetColl(model)

SpecColl == InitColl /\ [][NextColl]_vars

(* C1: getColl returns the non-empty segments of 'm', the qualifier and    *)
(* model.coll joined with '_' when model.spaceId names an existing space   *)
(* and model.coll is set, the qualifier being space.dbKey unless           *)
(* space.databaseUrl is set, and returns undefined in every other case.    *)
C1_GetCollRouting ==
    collCalled =>
        IF Truthy(collModel.spaceId) /\ collSpaces # {} /\ Truthy(collModel.coll)
        THEN \A s \in collSpaces :
                /\ s.id = collModel.spaceId
                /\ collResult =
                      IF Truthy(s.databaseUrl) \/ ~Truthy(s.dbKey)
                      THEN "m_" \o collModel.coll
                      ELSE "m_" \o s.dbKey \o "_" \o collModel.coll
        ELSE collResult = Undefined

C1_Witness ==
    /\ collCalled
    /\ collModel.coll = "todos"
    /\ collResult = "m_acme_todos"
    /\ \E s \in collSpaces : s.id = collModel.spaceId /\ s.dbKey = "acme"

----------------------------------------------------------------------------
(* Creates on one tenant collection: concurrently, and one after another.  *)

InitData ==
    /\ spaces = {}
    /\ CollIdle
    /\ dataLimit \in 1 .. MaxDataLimit
    /\ DataIdle
    /\ UserIdle
    /\ modelsLimit = 1 /\ propertyLimit = 1 /\ ModelsIdle
    /\ OrderIdle
    /\ XmIdle

NextData ==
    \/ \E p \in Procs, doc \in DataDocs : DataCreateBegin(p, doc)
    \/ \E p \in Procs : DataBeforeValidation(p)
    \/ \E p \in Procs : DataValidate(p)
    \/ \E p \in Procs : DataPersist(p)
    \/ DataDelete

SpecData == InitData /\ [][NextData]_vars

NextDataSeq ==
    \/ \E p \in Procs, doc \in DataDocs : DataCreateBeginSeq(p, doc)
    \/ \E p \in Procs : DataBeforeValidation(p)
    \/ \E p \in Procs : DataValidate(p)
    \/ \E p \in Procs : DataPersist(p)

SpecDataSeq == InitData /\ [][NextDataSeq]_vars

OkBefore(i) == Cardinality({j \in 1 .. (i - 1) : dataLog[j] = "ok"})

(* C2: when creates run one after another from an empty collection, a      *)
(* create is rejected by the limit check exactly when DATA_LIMIT documents *)
(* were already persisted, so with every document valid the 1st to N-th    *)
(* creates pass and every later one is rejected, and the count never       *)
(* exceeds DATA_LIMIT.                                                     *)
C2_SequentialDataLimit ==
    /\ dataCount <= dataLimit
    /\ \A i \in 1 .. Len(dataLog) :
          (dataLog[i] = "limit") <=> (OkBefore(i) >= dataLimit)
    /\ (\A i \in 1 .. Len(dataLog) : dataLog[i] # "invalid") =>
          \A i \in 1 .. Len(dataLog) :
              /\ (dataLog[i] = "ok") <=> (i <= dataLimit)
              /\ (dataLog[i] = "limit") <=> (i > dataLimit)

C2_Witness ==
    /\ dataLimit >= 2
    /\ Len(dataLog) > dataLimit
    /\ \A i \in 1 .. Len(dataLog) : dataLog[i] # "invalid"
    /\ dataLog[dataLimit] = "ok"
    /\ dataLog[dataLimit + 1] = "limit"
    /\ dataCount = dataLimit

(* C8: with creates interleaving, the count can exceed DATA_LIMIT, but by  *)
(* no more than the number of creates in flight together less one.         *)
C8_ConcurrentDataLimitBound ==
    /\ dataPeak = 0 => dataCount = 0
    /\ dataPeak >= 1 => dataCount <= dataLimit + dataPeak - 1
    /\ dataPeak <= NumProcs

C8_Witness ==
    /\ dataCount > dataLimit
    /\ dataCount = dataLimit + NumProcs - 1
    /\ dataPeak = NumProcs

----------------------------------------------------------------------------
(* Operations on the users model.                                          *)

InitUsers ==
    /\ spaces = {}
    /\ CollIdle
    /\ dataLimit = 1 /\ DataIdle
    /\ UserIdle
    /\ modelsLimit = 1 /\ propertyLimit = 1 /\ ModelsIdle
    /\ OrderIdle
    /\ XmIdle

NextUsers ==
    \/ \E doc \in UserDocs : UsersCreate(doc)
    \/ \E options \in AccessOptions, id \in UserIds, name \in UserNames :
          UsersUpdate(options, id, name)
    \/ \E options \in AccessOptions, id \in UserIds : UsersDelete(options, id)
    \/ \E doc \in UserDocs, options \in AccessOptions : CheckAccess(doc, options)

SpecUsers == InitUsers /\ [][NextUsers]_vars

(* C3: checkAccess throws an access error on every update or delete by a   *)
(* principal who is not a super user on a document whose id differs from   *)
(* the principal's, lets through every update or delete of the principal's *)
(* own document, never rejects another action, and returns the document    *)
(* unchanged whenever it lets the call through.                            *)
C3_CheckAccess ==
    accessCall # <<>> =>
        LET doc == accessCall.doc
            options == accessCall.options
            result == accessCall.result
            guarded == options.action \in {"update", "delete"}
        IN  /\ (guarded /\ ~options.superUser /\ doc.id # options.userId) =>
                  (result.status = "throw" /\ result.error.type = "AccessError")
            /\ (guarded /\ doc.id = options.userId) => result.status = "return"
            /\ ~guarded => result.status = "return"
            /\ result.status = "return" => result.doc = doc

C3_Witness ==
    /\ accessCall # <<>>
    /\ accessCall.options.action = "delete"
    /\ ~accessCall.options.superUser
    /\ accessCall.options.userId = "u1"
    /\ accessCall.doc.id = "u2"
    /\ accessCall.result.status = "throw"
    /\ \E u \in users : u.id = "u2"

----------------------------------------------------------------------------
(* setPropertiesOrder over documents with any declared order.              *)

OrderDeclared == {None} \cup {Some(l) : l \in ListsUpTo(DeclaredKeys, MaxOrderLen)}
OrderSchemaKeys == DistinctLists(OrderKeys, MaxProperties)

InitOrder ==
    /\ spaces = {}
    /\ CollIdle
    /\ dataLimit = 1 /\ DataIdle
    /\ UserIdle
    /\ modelsLimit = 1 /\ propertyLimit = 1 /\ ModelsIdle
    /\ \E declared \in OrderDeclared, schemaKeys \in OrderSchemaKeys :
          orderDoc = OrderDocOf(declared, schemaKeys)
    /\ orderResult = <<>>
    /\ XmIdle

NextOrder == SetPropertiesOrder

SpecOrder == InitOrder /\ [][NextOrder]_vars

Occurrences(list, x) == Cardinality({i \in 1 .. Len(list) : list[i] = x})

(* C5: after setPropertiesOrder on a document whose schema has properties, *)
(* whatever order the caller declared, propertiesOrder holds every schema  *)
(* key exactly once: the declared entries that are schema keys in caller   *)
(* order, then the missing schema keys in declaration order.               *)
C5_PropertiesOrderExactlyOnce ==
    (orderResult # <<>> /\ notEmpty(getInProperties(orderDoc))) =>
        /\ orderResult.status = "return"
        /\ LET order == The(orderResult.doc.propertiesOrder)
               schemaKeys == keys(The(getInProperties(orderDoc)))
           IN  /\ \A i \in 1 .. Len(schemaKeys) : Occurrences(order, schemaKeys[i]) = 1
               /\ Len(order) = Len(schemaKeys)

----------------------------------------------------------------------------
(* validateXMeta over documents with one or two properties.                *)

XmProperty(key, t, b) == Property(key, XmTypes[t], XmBlocks[b])

InitXMeta ==
    /\ spaces = {}
    /\ CollIdle
    /\ dataLimit = 1 /\ DataIdle
    /\ UserIdle
    /\ modelsLimit = 1 /\ propertyLimit = 1 /\ ModelsIdle
    /\ OrderIdle
    /\ \E t1, t2 \in 1 .. Len(XmTypes), b1, b2 \in 1 .. Len(XmBlocks), two \in BOOLEAN :
          xmDoc = XmDocOf(IF two
                          THEN <<XmProperty("a", t1, b1), XmProperty("b", t2, b2)>>
                          ELSE <<XmProperty("a", t1, b1)>>)
    /\ xmResult = <<>>

NextXMeta == ValidateXMeta

SpecXMeta == InitXMeta /\ [][NextXMeta]_vars

XmProperties == The(getInProperties(xmDoc))

\* the property validateXMeta threw at, or 0
XmThrownAt ==
    IF xmResult.status = "throw"
    THEN CHOOSE i \in 1 .. Len(XmProperties) :
            xmResult.error.path = xMetaPath(XmProperties[i].key)
    ELSE 0

\* validateXMeta got as far as property i, let it through, or rejected it
XmReached(i) == xmResult.status # "throw" \/ XmThrownAt >= i
XmAccepted(i) == xmResult.status # "throw" \/ XmThrownAt > i
XmRejected(i) ==
    /\ xmResult.status = "throw"
    /\ xmResult.error = validationError(xMetaPath(XmProperties[i].key))

XmHasBlock(i) ==
    IsSome(XmProperties[i].xMeta) /\ The(XmProperties[i].xMeta).t = "object"

XmUniqueTrue(i) ==
    /\ XmHasBlock(i)
    /\ "unique" \in DOMAIN The(XmProperties[i].xMeta).v
    /\ The(XmProperties[i].xMeta).v.unique = JBool(TRUE)

XmScalarType(i) ==
    \E name \in {"string", "integer", "number"} : XmProperties[i].type = Some(JStr(name))

(* C6, as claimed: a property whose x-meta block has unique: true is       *)
(* accepted by validateXMeta if and only if its declared type is string,   *)
(* integer or number, and is otherwise rejected with a validation error    *)
(* carrying the path model.schema.properties.<key>.x-meta.                 *)
C6_UniqueIffScalar ==
    xmResult # <<>> =>
        \A i \in 1 .. Len(XmProperties) :
            (XmUniqueTrue(i) /\ XmReached(i)) =>
                /\ XmAccepted(i) <=> XmScalarType(i)
                /\ ~XmAccepted(i) => XmRejected(i)

(* C6, amended: a property whose x-meta block has unique: true is accepted *)
(* by validateXMeta if and only if its declared type is string, integer or *)
(* number and the block passes X_META_SCHEMA, and is otherwise rejected    *)
(* with a validation error carrying the path                               *)
(* model.schema.properties.<key>.x-meta.                                   *)
C6_UniqueIffScalarAndValidBlock ==
    xmResult # <<>> =>
        \A i \in 1 .. Len(XmProperties) :
            (XmUniqueTrue(i) /\ XmReached(i)) =>
                /\ XmAccepted(i) <=>
                      (XmScalarType(i)
                         /\ jsonSchemaValid(X_META_SCHEMA, The(XmProperties[i].xMeta)))
                /\ ~XmAccepted(i) => XmRejected(i)

C6_Witness ==
    /\ xmResult # <<>>
    /\ Len(XmProperties) = 2
    /\ XmUniqueTrue(1) /\ XmScalarType(1) /\ XmAccepted(1)
    /\ XmUniqueTrue(2) /\ XmProperties[2].type = Some(JStr("boolean"))
    /\ XmProperties[2].xMeta = Some(JObj([unique |-> JBool(TRUE)]))
    /\ XmRejected(2)

\* the closed property set of the spec's data model: the relationship
\* descriptor also has onDelete
X_META_SPEC ==
    [X_META_SCHEMA EXCEPT
        !.properties.relationship.properties = [onDelete |-> Schema({})] @@ @]

(* C7: validateXMeta accepts an x-meta block exactly when it conforms to   *)
(* the closed property set of the data model, whose relationship           *)
(* descriptor has toType, type, toField, name, oneWay and onDelete.        *)
(* Stated for the blocks that do not ask for uniqueness.                   *)
C7_XMetaClosedSet ==
    xmResult # <<>> =>
        \A i \in 1 .. Len(XmProperties) :
            (XmHasBlock(i) /\ ~XmUniqueTrue(i) /\ XmReached(i)) =>
                /\ XmAccepted(i) <=> jsonSchemaValid(X_META_SPEC, The(XmProperties[i].xMeta))
                /\ ~XmAccepted(i) => XmRejected(i)

----------------------------------------------------------------------------
(* Operations on the models registry, one at a time, while the tenant      *)
(* directory changes.                                                      *)

MaxModelsLimit == 2
MaxPropertyLimit == 1

ModelsSpaces ==
    {[id |-> "s1", accountId |-> "a1", databaseUrl |-> Undefined, dbKey |-> "acme"]}

ModelsProperties ==
    {<<Property("a", Some(JStr("string")), Some(JObj([unique |-> JBool(TRUE)])))>>,
     <<Property("a", Some(JStr("boolean")), Some(JObj([unique |-> JBool(TRUE)])))>>,
     <<Property("bad name", Some(JStr("string")), None)>>,
     <<Property("a", Some(JStr("string")), None), Property("b", Some(JStr("string")), None)>>}

ModelsInputs ==
    {[EmptyDoc EXCEPT !.name = name, !.spaceId = spaceId, !.coll = coll, !.model = model] :
        name \in {"Todos", "Notes"}, spaceId \in {Undefined, "s1"},
        coll \in {Undefined},
        model \in {None} \cup {Some(ModelOf(Some(p))) : p \in ModelsProperties}}

InitModels ==
    /\ spaces = {}
    /\ CollIdle
    /\ dataLimit = 1 /\ DataIdle
    /\ UserIdle
    /\ modelsLimit \in 0 .. MaxModelsLimit
    /\ propertyLimit \in 1 .. MaxPropertyLimit
    /\ ModelsIdle
    /\ OrderIdle
    /\ XmIdle

NextModels ==
    \/ \E doc \in ModelsInputs, account \in {"a1"} : ModelsCreate(doc, account)
    \/ \E target \in modelsDocs, name \in {"Todos", "Notes"}, account \in {"a1"} :
          ModelsUpdate(target, name, account)
    \/ \E target \in modelsDocs, account \in {"a1"} : ModelsDelete(target, account)
    \/ \E swaggerValid \in BOOLEAN : ModelsHook(swaggerValid)
    \/ ModelsValidate
    \/ ModelsPersist
    \/ ModelsDeleteColl
    \/ \E doc \in modelsDocs : ModelsCollCreated(doc)
    \/ \E s \in ModelsSpaces : ModelsSpacesCreate(s)
    \/ \E id \in SpaceIds : ModelsSpacesDelete(id)

SpecModels == InitModels /\ [][NextModels]_vars

ModelsFailed == IsSome(mResult) /\ The(mResult).status = "error"
ModelsFailedAt(hook) == ModelsFailed /\ The(mResult).step.hook = hook

\* the beforeValidation stage of a create or update, as the models registry declares it
DeclaredBeforeValidation(action) ==
    <<"validateSpace", "setDefaultColl", "setModelColl", "setAccountId", "setFeatures",
      "setSchema", "validatePropertyNames", "validateModel", "validatePropertiesLimit",
      "setPropertiesOrder">>
        \o (IF action = "create" THEN <<"validateCollAvailable", "validateModelsLimit">>
            ELSE <<>>)

(* C4: when a hook of the beforeValidation stage of a create or update of  *)
(* a models document throws, the hooks that ran are the declared save list *)
(* followed by the create/update list up to the failing hook and nothing   *)
(* else: no later hook of the stage, no afterValidation hook, no           *)
(* validation, no write and no after hook, and the stored documents are    *)
(* the ones stored when the operation began.                               *)
C4_PipelineShortCircuit ==
    (ModelsFailed /\ mOp.action \in {"create", "update"}
        /\ The(mResult).step.stage = "beforeValidation") =>
        /\ \E k \in 1 .. Len(DeclaredBeforeValidation(mOp.action)) :
              /\ mRan = SubSeq(DeclaredBeforeValidation(mOp.action), 1, k)
              /\ The(mResult).step.hook = DeclaredBeforeValidation(mOp.action)[k]
        /\ \A i \in 1 .. Len(mRan) :
              mRan[i] \notin {"validateXMeta", "validateSwagger", "schema", "create",
                              "update", "deleteColl"}
        /\ modelsDocs = mBefore
        /\ mPc = 0

C4_Witness ==
    /\ ModelsFailedAt("validateCollAvailable")
    /\ mOp.action = "create"
    /\ Len(mRan) = 11
    /\ modelsDocs # {}
    /\ modelsDocs = mBefore

(* C9: validateModelsLimit rejects a create of a document with a spaceId   *)
(* if and only if the number of stored models with that spaceId is at      *)
(* least MODELS_LIMIT, a count of 0 and a limit of 0 included.             *)
C9_ModelsLimitCeiling ==
    IsSome(mCount) =>
        (ModelsFailedAt("validateModelsLimit") <=> The(mCount) >= modelsLimit)

(* C10: a save of a models document that fails on its tenant reference     *)
(* fails with a ValidationError, also when the space is deleted between    *)
(* the lookups of validateSpace, setModelColl and setAccountId.            *)
C10_TenantFailuresTyped ==
    (ModelsFailed /\ mOp.action \in {"create", "update"}
        /\ The(mResult).step.hook \in {"validateSpace", "setModelColl", "setAccountId"}) =>
        The(mResult).error.type = "ValidationError"

====
